---- MODULE Spec2Model ----
(***************************************************************************)
(* Freeze Guard collector: event validation, metric aggregation and the    *)
(* bounded buffer of recent events (src/collector/app.py, models.py,       *)
(* metrics.py) together with the VS Code variant's event schema and       *)
(* metric registry (src/vscode-freezeguard/collector/models.py,            *)
(* metrics.py).                                                            *)
(*                                                                         *)
(* Units.  Durations enter as milliseconds and are observed as seconds     *)
(* (x / 1000.0).  Seconds are carried here as integer microseconds, so     *)
(* x ms / 1000.0 is x * 1000 and the histogram bounds 0.010 .. 10.0 read   *)
(* 10000 .. 10000000.                                                      *)
(*                                                                         *)
(* Scheduling.  /ingest is a coroutine handler, /metrics and /report are   *)
(* plain functions that the framework runs on worker threads.  Handlers    *)
(* are interleaved at statement granularity; each call into the metrics    *)
(* library and each deque operation is one indivisible step.               *)
(***************************************************************************)
EXTENDS Integers, Sequences, FiniteSets, TLC

VARIABLES
    action_duration_seconds,     \* histogram, labels <<action, thread>>
    edt_stall_duration_seconds,  \* histogram, labels <<action>>
    edt_stalls_total,            \* counter,   labels <<action>>
    events_total,                \* counter,   labels <<action, thread>>
    heap_delta_bytes,            \* histogram, labels <<action, thread>>
    RING,                        \* deque of <<ts, ev>>, maxlen RING_MAXLEN
    req,                         \* per worker: the ingest call it is running
    scan,                        \* the /metrics reader: position and what it has read
    reportOut,                   \* the entries of the last /report response
    debugOut,                    \* the last response to GET /debug
    vsEvent,                     \* last result of the VS Code variant's ActionEvent(**data)
    vsMetrics,                   \* the VS Code variant's registry: metric name -> series
    acked,                       \* history: events acknowledged {ok: true}, in order
    nstarted                     \* history: ingest calls started

metrics == <<action_duration_seconds, edt_stall_duration_seconds,
             edt_stalls_total, events_total, heap_delta_bytes>>
shared == <<metrics, RING>>
aux == <<debugOut, vsMetrics>>
vars == <<metrics, RING, req, scan, reportOut, vsEvent, acked, nstarted, aux>>

----------------------------------------------------------------------------
(* Bounds of the model *)

MaxIngests == 2      \* ingest calls per behaviour of Spec
Warmup == 255        \* sequential calls that fill the buffer in SpecRing
MaxLate == 3         \* concurrent calls after the warm-up in SpecRing
MaxShared == 3       \* events given to both registries in SpecVariants

Procs == {"w1", "w2"}

----------------------------------------------------------------------------
(* JSON values and request bodies *)

JNum(n) == [t |-> "number", n |-> n]
JStr(s) == [t |-> "string", s |-> s]
JAbsent == [t |-> "absent"]            \* the key is not in the object
JArr == [t |-> "array"]                \* a value no field type coerces
JBool(b) == [t |-> "boolean", b |-> b]
JNull == [t |-> "null"]
JObj(a, d, th, h, st, l, ts) ==
    [t |-> "object",
     action |-> a, duration_ms |-> d, thread |-> th, heap_delta_bytes |-> h,
     edt_stalls |-> st, edt_longest_stall_ms |-> l, ts |-> ts]

\* A body is text: either the serialisation of a JSON document or not JSON.
Body(doc) == [json |-> TRUE, doc |-> doc]
Malformed == [json |-> FALSE, text |-> "{\"action\": \"test\", \"invalid\": json}"]

NoData == [t |-> "none"]
NoEvent == [valid |-> FALSE]
NoResp == [status |-> 0]

----------------------------------------------------------------------------
(* request.json() *)

\* mutant: only an object counts as parsed
JsonLoadsObjectsOnly(raw) ==
    IF raw.json /\ raw.doc.t = "object" THEN [ok |-> TRUE, val |-> raw.doc]
    ELSE [ok |-> FALSE]

JsonLoads(raw) ==
    IF raw.json THEN [ok |-> TRUE, val |-> raw.doc] ELSE [ok |-> FALSE]

----------------------------------------------------------------------------
(* models.py: ActionEvent *)

UNIFIED_THREADS == {"EDT", "BGT", "MAIN", "WORKER"}
VSCODE_THREADS == {"MAIN", "WORKER"}

\* n-th instant of the ISO strings used as inputs; other strings do not parse
IsoInstants == [s \in {"2024-01-01T12:00:00Z", "2024-01-01T12:00:01Z"} |->
                   IF s = "2024-01-01T12:00:00Z" THEN 0 ELSE 1]

StrOk(v) == v.t = "string"
FloatOk(v) == v.t = "number"
IntOk(v) == v.t = "number"
DatetimeOk(v) == \/ v.t = "number"
                 \/ v.t = "string" /\ v.s \in DOMAIN IsoInstants
ToDatetime(v) == IF v.t = "number" THEN v.n ELSE IsoInstants[v.s]
\* mutant: any string passes as a thread
LiteralOkAnyString(v, threads) == v.t = "string"
LiteralOk(v, threads) == v.t = "string" /\ v.s \in threads
OptionalOk(v) == v.t = "absent" \/ IntOk(v)
\* mutant: an omitted field counts as 1
WithDefaultOne(v, dflt) == IF v.t = "absent" THEN 1 ELSE v.n
WithDefault(v, dflt) == IF v.t = "absent" THEN dflt ELSE v.n

\* ActionEvent(**data): raises (valid = FALSE) or builds the typed event
ActionEvent(data, threads) ==
    IF /\ data.t = "object"
       /\ StrOk(data.action)
       /\ FloatOk(data.duration_ms)
       /\ LiteralOk(data.thread, threads)
       /\ OptionalOk(data.heap_delta_bytes)
       /\ OptionalOk(data.edt_stalls)
       /\ OptionalOk(data.edt_longest_stall_ms)
       /\ DatetimeOk(data.ts)
    THEN [valid |-> TRUE,
          action |-> data.action.s,
          duration_ms |-> data.duration_ms.n,
          thread |-> data.thread.s,
          heap_delta_bytes |-> WithDefault(data.heap_delta_bytes, 0),
          edt_stalls |-> WithDefault(data.edt_stalls, 0),
          edt_longest_stall_ms |-> WithDefault(data.edt_longest_stall_ms, 0),
          ts |-> ToDatetime(data.ts)]
    ELSE NoEvent

UnifiedActionEvent(data) == ActionEvent(data, UNIFIED_THREADS)
VSCodeActionEvent(data) == ActionEvent(data, VSCODE_THREADS)

----------------------------------------------------------------------------
(* metrics.py: counters and histograms *)

ACTION_DURATION_BUCKETS == <<10000, 25000, 50000, 100000, 250000, 500000,
                             1000000, 2000000, 5000000, 10000000>>
STALL_DURATION_BUCKETS == <<100000, 250000, 500000, 1000000, 2000000, 5000000>>
HEAP_DELTA_BUCKETS == <<-50000000, -10000000, -1000000, -100000, -10000, 0,
                        10000, 100000, 1000000, 10000000, 50000000>>

NoSeries == [k \in {} |-> 0]

\* mutant: the amount is stored instead of added (an update is lost)
CounterStore(c, k, amount) ==
    [x \in DOMAIN c \cup {k} |-> IF x = k THEN amount ELSE c[x]]

\* mutant: a counter holds at most two series; a third one is dropped
CounterIncCapped(c, k, amount) ==
    IF k \notin DOMAIN c /\ Cardinality(DOMAIN c) >= 2 THEN c
    ELSE [x \in DOMAIN c \cup {k} |->
             IF x = k THEN (IF k \in DOMAIN c THEN c[k] ELSE 0) + amount ELSE c[x]]

\* Counter.labels(k).inc(amount): the child is created at 0 on first use
CounterInc(c, k, amount) ==
    [x \in DOMAIN c \cup {k} |->
        IF x = k THEN (IF k \in DOMAIN c THEN c[k] ELSE 0) + amount ELSE c[x]]

\* mutant: a value equal to a bound falls into the next bucket
BucketIndexStrict(bounds, v) ==
    IF \E i \in 1..Len(bounds) : v < bounds[i]
    THEN CHOOSE i \in 1..Len(bounds) :
            /\ v < bounds[i]
            /\ \A j \in 1..(i - 1) : v >= bounds[j]
    ELSE Len(bounds) + 1

\* index of the bucket an observation is counted in; Len + 1 is +Inf
BucketIndex(bounds, v) ==
    IF \E i \in 1..Len(bounds) : v <= bounds[i]
    THEN CHOOSE i \in 1..Len(bounds) :
            /\ v <= bounds[i]
            /\ \A j \in 1..(i - 1) : v > bounds[j]
    ELSE Len(bounds) + 1

NewChild(bounds) == [sum |-> 0, buckets |-> [i \in 1..(Len(bounds) + 1) |-> 0]]

\* mutant: the sum is the last value observed
HistObserveKeepLast(h, bounds, k, v) ==
    LET child == IF k \in DOMAIN h THEN h[k] ELSE NewChild(bounds)
        seen == [sum |-> v,
                 buckets |-> [child.buckets EXCEPT ![BucketIndex(bounds, v)] = @ + 1]]
    IN [x \in DOMAIN h \cup {k} |-> IF x = k THEN seen ELSE h[x]]

\* Histogram.labels(k).observe(v)
HistObserve(h, bounds, k, v) ==
    LET child == IF k \in DOMAIN h THEN h[k] ELSE NewChild(bounds)
        seen == [sum |-> child.sum + v,
                 buckets |-> [child.buckets EXCEPT ![BucketIndex(bounds, v)] = @ + 1]]
    IN [x \in DOMAIN h \cup {k} |-> IF x = k THEN seen ELSE h[x]]

RECURSIVE SumSeq(_)
SumSeq(s) == IF s = <<>> THEN 0 ELSE Head(s) + SumSeq(Tail(s))

\* the series' _count sample
HistCount(h, k) == IF k \in DOMAIN h THEN SumSeq(h[k].buckets) ELSE 0
CounterValue(c, k) == IF k \in DOMAIN c THEN c[k] ELSE 0

\* the sum of a counter's series
RECURSIVE SumOver(_, _)
SumOver(f, S) ==
    IF S = {} THEN 0
    ELSE LET x == CHOOSE y \in S : TRUE IN f[x] + SumOver(f, S \ {x})
CounterSum(c) == SumOver(c, DOMAIN c)

----------------------------------------------------------------------------
(* The values of the metrics library are Python floats (IEEE 754 binary64)  *)
(* and a histogram's sum is accumulated by float addition.  A positive      *)
(* double is [e, m]: m is its 53-bit significand as a sequence of bits,     *)
(* most significant (always 1) first, read as an integer, and the value is  *)
(* m * 2^e.  Results are rounded to nearest, ties to even.                  *)

MANT_BITS == 53
FloatZero == [zero |-> TRUE]

RECURSIVE Pow2(_)
Pow2(n) == IF n = 0 THEN 1 ELSE 2 * Pow2(n - 1)

Zeros(n) == [i \in 1..n |-> 0]

\* bits + 1, same length; the carry out of the top bit is dropped.  A bit
\* flips when every bit below it is 1.
Increment(bits) ==
    [i \in 1..Len(bits) |->
        IF \A j \in (i + 1)..Len(bits) : bits[j] = 1 THEN 1 - bits[i] ELSE bits[i]]

\* the carry into position i of a + b: some lower position generates one and
\* every position in between passes it on
CarryInto(a, b, i) ==
    IF \E j \in (i + 1)..Len(a) :
          /\ a[j] = 1 /\ b[j] = 1
          /\ \A k \in (i + 1)..(j - 1) : a[k] = 1 \/ b[k] = 1
    THEN 1 ELSE 0

\* a + b for bit sequences of the same length; the result is one bit longer
AddBits(a, b) ==
    [i \in 1..(Len(a) + 1) |->
        IF i = 1 THEN CarryInto(a, b, 0)
        ELSE (a[i - 1] + b[i - 1] + CarryInto(a, b, i - 1)) % 2]

\* the double nearest to (bits read as an integer) * 2^e; bits starts with 1
\* and has at least MANT_BITS bits
RoundToDouble(bits, e) ==
    LET extra == Len(bits) - MANT_BITS
        m == SubSeq(bits, 1, MANT_BITS)
        rest == SubSeq(bits, MANT_BITS + 1, Len(bits))
        above == extra > 0 /\ rest[1] = 1 /\ \E i \in 2..extra : rest[i] = 1
        tie == extra > 0 /\ rest[1] = 1 /\ \A i \in 2..extra : rest[i] = 0
        up == above \/ (tie /\ m[MANT_BITS] = 1)
    IN IF ~up THEN [zero |-> FALSE, e |-> e + extra, m |-> m]
       ELSE IF \A i \in 1..MANT_BITS : m[i] = 1
            THEN [zero |-> FALSE, e |-> e + extra + 1,
                  m |-> <<1>> \o Zeros(MANT_BITS - 1)]
            ELSE [zero |-> FALSE, e |-> e + extra, m |-> Increment(m)]

\* the exact sum of two positive doubles, in units of the smaller exponent,
\* without leading zero
AlignedSum(x, y) ==
    LET hi == IF x.e >= y.e THEN x ELSE y
        lo == IF x.e >= y.e THEN y ELSE x
        d == hi.e - lo.e
        total == AddBits(hi.m \o Zeros(d), Zeros(d) \o lo.m)
    IN IF total[1] = 1 THEN total ELSE Tail(total)

\* x + y for doubles that are zero or positive
FloatAdd(x, y) ==
    IF x.zero THEN y
    ELSE IF y.zero THEN x
    ELSE RoundToDouble(AlignedSum(x, y), IF x.e <= y.e THEN x.e ELSE y.e)

\* x + y loses no bit
AddIsExact(x, y) ==
    \/ x.zero
    \/ y.zero
    \/ LET bits == AlignedSum(x, y)
       IN \A i \in (MANT_BITS + 1)..Len(bits) : bits[i] = 0

\* the first n bits of num / den, where 1 <= num / den < 2
RECURSIVE QuotientBits(_, _, _)
QuotientBits(num, den, n) ==
    IF n = 0 THEN <<>>
    ELSE IF num >= den THEN <<1>> \o QuotientBits(2 * (num - den), den, n - 1)
    ELSE <<0>> \o QuotientBits(2 * num, den, n - 1)

\* what is left of num after n bits of the quotient, doubled n times
RECURSIVE QuotientRest(_, _, _)
QuotientRest(num, den, n) ==
    IF n = 0 THEN num
    ELSE IF num >= den THEN QuotientRest(2 * (num - den), den, n - 1)
    ELSE QuotientRest(2 * num, den, n - 1)

\* the exponent p with 2^p <= num / den < 2^(p + 1)
RECURSIVE Log2Floor(_, _)
Log2Floor(num, den) ==
    IF num < den THEN Log2Floor(2 * num, den) - 1
    ELSE IF num >= 2 * den THEN Log2Floor(num, 2 * den) + 1
    ELSE 0

\* ms / 1000.0 for a positive whole number of milliseconds
FloatSeconds(ms) ==
    LET p == Log2Floor(ms, 1000)
        num == IF p < 0 THEN ms * Pow2(0 - p) ELSE ms
        den == IF p < 0 THEN 1000 ELSE 1000 * Pow2(p)
        bits == QuotientBits(num, den, MANT_BITS)
        rest == QuotientRest(num, den, MANT_BITS)
        \* one more bit, and a sticky bit for what remains after it
        guard == IF rest >= den THEN 1 ELSE 0
        sticky == IF rest - guard * den > 0 THEN 1 ELSE 0
    IN RoundToDouble(bits \o <<guard, sticky>>, p - (MANT_BITS - 1) - 2)

\* the sum a series holds after observing ms[1], ms[2], ... in this order
RECURSIVE FloatSumFrom(_, _)
FloatSumFrom(sum, ms) ==
    IF ms = <<>> THEN sum
    ELSE FloatSumFrom(FloatAdd(sum, FloatSeconds(Head(ms))), Tail(ms))


\* no addition of that accumulation rounds
RECURSIVE FloatSumIsExact(_, _)
FloatSumIsExact(sum, ms) ==
    \/ ms = <<>>
    \/ /\ AddIsExact(sum, FloatSeconds(Head(ms)))
       /\ FloatSumIsExact(FloatAdd(sum, FloatSeconds(Head(ms))), Tail(ms))

----------------------------------------------------------------------------
(* app.py: RING *)

RING_MAXLEN == 256

\* mutant: a deque without maxlen
RingAppendUnbounded(ring, x) == Append(ring, x)

\* mutant: at capacity the newest entry is dropped, not the oldest
RingAppendDropNewest(ring, x) ==
    IF Len(ring) = RING_MAXLEN
    THEN Append(SubSeq(ring, 1, Len(ring) - 1), x)
    ELSE Append(ring, x)

\* mutant: an entry equal to one already held is not appended again
RingAppendDedupe(ring, x) ==
    IF \E i \in 1..Len(ring) : ring[i] = x THEN ring
    ELSE IF Len(ring) = RING_MAXLEN THEN Append(Tail(ring), x) ELSE Append(ring, x)

\* mutant: the buffer is kept in timestamp order
RECURSIVE InsertByTs(_, _)
InsertByTs(ring, x) ==
    IF ring = <<>> THEN <<x>>
    ELSE IF x[1] < Head(ring)[1] THEN <<x>> \o ring
    ELSE <<Head(ring)>> \o InsertByTs(Tail(ring), x)
RingAppendByTs(ring, x) ==
    IF Len(ring) = RING_MAXLEN THEN InsertByTs(Tail(ring), x) ELSE InsertByTs(ring, x)

\* deque(maxlen=RING_MAXLEN).append(x)
RingAppend(ring, x) ==
    IF Len(ring) = RING_MAXLEN THEN Append(Tail(ring), x) ELSE Append(ring, x)

----------------------------------------------------------------------------
(* app.py: ingest *)

Max(a, b) == IF a >= b THEN a ELSE b
\* mutant: the duration is clamped like the longest stall
SecsClamped(ms) == (IF ms < 0 THEN 0 ELSE ms) * 1000
Secs(ms) == ms * 1000                  \* ms / 1000.0 seconds, in microseconds
\* mutant: abs(ms) / 1000.0
StallSecsAbs(ms) == (IF ms < 0 THEN 0 - ms ELSE ms) * 1000
StallSecs(ms) == Max(0, ms) * 1000     \* max(0.0, ms) / 1000.0

Idle(p) == req[p].pc \in {"idle", "done"}
AllIdle == \A p \in Procs : Idle(p)

NewCall(body) ==
    [pc |-> "parse", raw |-> body, data |-> NoData, ev |-> NoEvent, resp |-> NoResp]

\* a request arrives at worker p: raw = await request.body()
Receive(p, body) ==
    /\ Idle(p)
    /\ req' = [req EXCEPT ![p] = NewCall(body)]
    /\ nstarted' = nstarted + 1
    /\ UNCHANGED <<aux, shared, scan, reportOut, vsEvent, acked>>

\* mutant: a body that is not JSON is reported as a schema error
ParseErrorAsSchema(raw) ==
    [status |-> 422, ok |-> FALSE, error |-> "model", data |-> raw]

ParseError(raw) ==
    [status |-> 400, ok |-> FALSE, error |-> "json parse", raw |-> raw]
SchemaError(data) ==
    [status |-> 422, ok |-> FALSE, error |-> "model", data |-> data]
Ack == [status |-> 200, ok |-> TRUE]

\* try: data = await request.json()  except: return 400
Parse(p) ==
    /\ req[p].pc = "parse"
    /\ LET r == JsonLoads(req[p].raw)
       IN req' = [req EXCEPT ![p] =
                    IF r.ok
                    THEN [@ EXCEPT !.pc = "validate", !.data = r.val]
                    ELSE [@ EXCEPT !.pc = "done", !.resp = ParseError(req[p].raw)]]
    /\ UNCHANGED <<aux, shared, scan, reportOut, vsEvent, acked, nstarted>>

\* mutant: the call is counted before it is validated
ValidateCountFirst(p) ==
    /\ req[p].pc = "validate"
    /\ LET ev == UnifiedActionEvent(req[p].data)
       IN /\ req' = [req EXCEPT ![p] =
                       IF ev.valid
                       THEN [@ EXCEPT !.pc = "duration", !.ev = ev]
                       ELSE [@ EXCEPT !.pc = "done",
                                      !.resp = SchemaError(req[p].data)]]
          /\ events_total' =
                IF ev.valid THEN events_total
                ELSE CounterInc(events_total, <<"rejected", "none">>, 1)
    /\ UNCHANGED <<aux, action_duration_seconds, edt_stall_duration_seconds,
                   edt_stalls_total, heap_delta_bytes, RING, scan, reportOut,
                   vsEvent, acked, nstarted>>

\* try: ev = ActionEvent(**data)  except: return 422
Validate(p) ==
    /\ req[p].pc = "validate"
    /\ LET ev == UnifiedActionEvent(req[p].data)
       IN req' = [req EXCEPT ![p] =
                    IF ev.valid
                    THEN [@ EXCEPT !.pc = "duration", !.ev = ev]
                    ELSE [@ EXCEPT !.pc = "done", !.resp = SchemaError(req[p].data)]]
    /\ UNCHANGED <<aux, shared, scan, reportOut, vsEvent, acked, nstarted>>

\* action_duration_seconds.labels(ev.action, ev.thread).observe(secs)
ObserveDuration(p) ==
    /\ req[p].pc = "duration"
    /\ LET ev == req[p].ev
       IN action_duration_seconds' =
            HistObserve(action_duration_seconds, ACTION_DURATION_BUCKETS,
                        <<ev.action, ev.thread>>, Secs(ev.duration_ms))
    /\ req' = [req EXCEPT ![p].pc = "stall"]
    /\ UNCHANGED <<aux, edt_stall_duration_seconds, edt_stalls_total, events_total,
                   heap_delta_bytes, RING, scan, reportOut, vsEvent, acked,
                   nstarted>>

\* if stall_secs > 0.0: edt_stall_duration_seconds.labels(ev.action).observe(stall_secs)
ObserveStall(p) ==
    /\ req[p].pc = "stall"
    /\ LET ev == req[p].ev
           stall_secs == StallSecs(ev.edt_longest_stall_ms)
       IN edt_stall_duration_seconds' =
            IF stall_secs > 0
            THEN HistObserve(edt_stall_duration_seconds, STALL_DURATION_BUCKETS,
                             <<ev.action>>, stall_secs)
            ELSE edt_stall_duration_seconds
    /\ req' = [req EXCEPT ![p].pc = "stalls"]
    /\ UNCHANGED <<aux, action_duration_seconds, edt_stalls_total, events_total,
                   heap_delta_bytes, RING, scan, reportOut, vsEvent, acked,
                   nstarted>>

\* mutant: the increment without the guard
IncStallsUnguarded(p) ==
    /\ req[p].pc = "stalls"
    /\ LET ev == req[p].ev
       IN edt_stalls_total' =
            CounterInc(edt_stalls_total, <<ev.action>>, Max(0, ev.edt_stalls))
    /\ req' = [req EXCEPT ![p].pc = "events"]
    /\ UNCHANGED <<aux, action_duration_seconds, edt_stall_duration_seconds, events_total,
                   heap_delta_bytes, RING, scan, reportOut, vsEvent, acked,
                   nstarted>>

\* mutant: the guard is != 0, a negative count is added as it is
IncStallsSigned(p) ==
    /\ req[p].pc = "stalls"
    /\ LET ev == req[p].ev
       IN edt_stalls_total' =
            IF ev.edt_stalls # 0
            THEN CounterInc(edt_stalls_total, <<ev.action>>, ev.edt_stalls)
            ELSE edt_stalls_total
    /\ req' = [req EXCEPT ![p].pc = "events"]
    /\ UNCHANGED <<aux, action_duration_seconds, edt_stall_duration_seconds, events_total,
                   heap_delta_bytes, RING, scan, reportOut, vsEvent, acked,
                   nstarted>>

\* if ev.edt_stalls > 0: edt_stalls_total.labels(ev.action).inc(ev.edt_stalls)
IncStalls(p) ==
    /\ req[p].pc = "stalls"
    /\ LET ev == req[p].ev
       IN edt_stalls_total' =
            IF ev.edt_stalls > 0
            THEN CounterInc(edt_stalls_total, <<ev.action>>, ev.edt_stalls)
            ELSE edt_stalls_total
    /\ req' = [req EXCEPT ![p].pc = "events"]
    /\ UNCHANGED <<aux, action_duration_seconds, edt_stall_duration_seconds, events_total,
                   heap_delta_bytes, RING, scan, reportOut, vsEvent, acked,
                   nstarted>>

\* mutant: events_total.labels(...).inc(ev.edt_stalls)
IncEventsByStalls(p) ==
    /\ req[p].pc = "events"
    /\ LET ev == req[p].ev
       IN events_total' =
            CounterInc(events_total, <<ev.action, ev.thread>>, ev.edt_stalls)
    /\ req' = [req EXCEPT ![p].pc = "heap"]
    /\ UNCHANGED <<aux, action_duration_seconds, edt_stall_duration_seconds,
                   edt_stalls_total, heap_delta_bytes, RING, scan, reportOut,
                   vsEvent, acked, nstarted>>

\* mutant: the increment sits under the preceding if
IncEventsOnlyWhenStalled(p) ==
    /\ req[p].pc = "events"
    /\ LET ev == req[p].ev
       IN events_total' =
            IF ev.edt_stalls > 0
            THEN CounterInc(events_total, <<ev.action, ev.thread>>, 1)
            ELSE events_total
    /\ req' = [req EXCEPT ![p].pc = "heap"]
    /\ UNCHANGED <<aux, action_duration_seconds, edt_stall_duration_seconds,
                   edt_stalls_total, heap_delta_bytes, RING, scan, reportOut,
                   vsEvent, acked, nstarted>>

\* events_total.labels(ev.action, ev.thread).inc()
IncEvents(p) ==
    /\ req[p].pc = "events"
    /\ LET ev == req[p].ev
       IN events_total' = CounterInc(events_total, <<ev.action, ev.thread>>, 1)
    /\ req' = [req EXCEPT ![p].pc = "heap"]
    /\ UNCHANGED <<aux, action_duration_seconds, edt_stall_duration_seconds,
                   edt_stalls_total, heap_delta_bytes, RING, scan, reportOut,
                   vsEvent, acked, nstarted>>

\* mutant: the absolute value is observed (what the comment above the
\* statement announces)
ObserveHeapAbs(p) ==
    /\ req[p].pc = "heap"
    /\ LET ev == req[p].ev
           magnitude == IF ev.heap_delta_bytes < 0 THEN 0 - ev.heap_delta_bytes
                        ELSE ev.heap_delta_bytes
       IN heap_delta_bytes' =
            IF ev.heap_delta_bytes # 0
            THEN HistObserve(heap_delta_bytes, HEAP_DELTA_BUCKETS,
                             <<ev.action, ev.thread>>, magnitude)
            ELSE heap_delta_bytes
    /\ req' = [req EXCEPT ![p].pc = "append"]
    /\ UNCHANGED <<aux, action_duration_seconds, edt_stall_duration_seconds,
                   edt_stalls_total, events_total, RING, scan, reportOut,
                   vsEvent, acked, nstarted>>

\* if ev.heap_delta_bytes != 0: heap_delta_bytes.labels(...).observe(ev.heap_delta_bytes)
ObserveHeap(p) ==
    /\ req[p].pc = "heap"
    /\ LET ev == req[p].ev
       IN heap_delta_bytes' =
            IF ev.heap_delta_bytes # 0
            THEN HistObserve(heap_delta_bytes, HEAP_DELTA_BUCKETS,
                             <<ev.action, ev.thread>>, ev.heap_delta_bytes)
            ELSE heap_delta_bytes
    /\ req' = [req EXCEPT ![p].pc = "append"]
    /\ UNCHANGED <<aux, action_duration_seconds, edt_stall_duration_seconds,
                   edt_stalls_total, events_total, RING, scan, reportOut,
                   vsEvent, acked, nstarted>>

\* RING.append((ev.ts, ev)); return {"ok": True}
AppendAndReturn(p) ==
    /\ req[p].pc = "append"
    /\ RING' = RingAppend(RING, <<req[p].ev.ts, req[p].ev>>)
    /\ req' = [req EXCEPT ![p] = [@ EXCEPT !.pc = "done", !.resp = Ack]]
    /\ acked' = Append(acked, req[p].ev)
    /\ UNCHANGED <<aux, metrics, scan, reportOut, vsEvent, nstarted>>

\* the metric statements of ingest (lines 38 to 49) run for one event on a
\* registry given as a record
ApplyEvent(reg, ev) ==
    LET k == <<ev.action, ev.thread>>
        stall_secs == StallSecs(ev.edt_longest_stall_ms)
    IN [action_duration_seconds |->
            HistObserve(reg.action_duration_seconds, ACTION_DURATION_BUCKETS, k,
                        Secs(ev.duration_ms)),
        edt_stall_duration_seconds |->
            IF stall_secs > 0
            THEN HistObserve(reg.edt_stall_duration_seconds, STALL_DURATION_BUCKETS,
                             <<ev.action>>, stall_secs)
            ELSE reg.edt_stall_duration_seconds,
        edt_stalls_total |->
            IF ev.edt_stalls > 0
            THEN CounterInc(reg.edt_stalls_total, <<ev.action>>, ev.edt_stalls)
            ELSE reg.edt_stalls_total,
        events_total |-> CounterInc(reg.events_total, k, 1),
        heap_delta_bytes |->
            IF ev.heap_delta_bytes # 0
            THEN HistObserve(reg.heap_delta_bytes, HEAP_DELTA_BUCKETS, k,
                             ev.heap_delta_bytes)
            ELSE reg.heap_delta_bytes]

\* the same for a sequence of events, one call after the other
RECURSIVE ApplyAll(_, _)
ApplyAll(reg, evs) ==
    IF evs = <<>> THEN reg ELSE ApplyAll(ApplyEvent(reg, Head(evs)), Tail(evs))

\* the buffer after the appends of a sequence of events
RECURSIVE AppendAll(_, _)
AppendAll(ring, evs) ==
    IF evs = <<>> THEN ring
    ELSE AppendAll(RingAppend(ring, <<Head(evs).ts, Head(evs)>>), Tail(evs))

\* the milliseconds that line 38 turns into the observations of the duration
\* series k, for a sequence of events handled one call after the other
DurationsIn(evs, k) ==
    LET InSeries(ev) == <<ev.action, ev.thread>> = k
        sel == SelectSeq(evs, InSeries)
    IN [i \in 1..Len(sel) |-> sel[i].duration_ms]

\* the same for line 39 and the stall series of an action: only a positive
\* stall is observed
StallsIn(evs, action) ==
    LET InSeries(ev) == ev.action = action /\ ev.edt_longest_stall_ms > 0
        sel == SelectSeq(evs, InSeries)
    IN [i \in 1..Len(sel) |-> sel[i].edt_longest_stall_ms]

\* the sums of these two series as the registry holds them: doubles, each
\* observation added to the sum so far
DurationSum(evs, k) == FloatSumFrom(FloatZero, DurationsIn(evs, k))
StallSum(evs, action) == FloatSumFrom(FloatZero, StallsIn(evs, action))

EmptyRegistry ==
    [action_duration_seconds |-> NoSeries, edt_stall_duration_seconds |-> NoSeries,
     edt_stalls_total |-> NoSeries, events_total |-> NoSeries,
     heap_delta_bytes |-> NoSeries]

\* the registry as it is now
Registry ==
    [action_duration_seconds |-> action_duration_seconds,
     edt_stall_duration_seconds |-> edt_stall_duration_seconds,
     edt_stalls_total |-> edt_stalls_total, events_total |-> events_total,
     heap_delta_bytes |-> heap_delta_bytes]

\* one statement of the ingest call running at worker p
IngestStep(p) ==
    \/ Parse(p)
    \/ Validate(p)
    \/ ObserveDuration(p)
    \/ ObserveStall(p)
    \/ IncStalls(p)
    \/ IncEvents(p)
    \/ ObserveHeap(p)
    \/ AppendAndReturn(p)

----------------------------------------------------------------------------
(* app.py: metrics.  generate_latest() walks the registry and samples one  *)
(* metric after the other, in the order metrics.py registers them; the     *)
(* registry is not frozen while it is walked.                              *)

NoView == [action_duration_seconds |-> NoSeries,
           edt_stall_duration_seconds |-> NoSeries,
           edt_stalls_total |-> NoSeries,
           events_total |-> NoSeries,
           heap_delta_bytes |-> NoSeries]
IdleScan == [pc |-> "idle", view |-> NoView]

ScanUnchanged == UNCHANGED <<aux, shared, req, reportOut, vsEvent, acked, nstarted>>

\* metrics() is called (once per behaviour); action_duration_seconds is sampled
ScanDuration ==
    /\ scan.pc = "idle"
    /\ scan' = [pc |-> "edt_stall_duration_seconds",
                view |-> [NoView EXCEPT
                            !.action_duration_seconds = action_duration_seconds]]
    /\ ScanUnchanged

ScanStallDuration ==
    /\ scan.pc = "edt_stall_duration_seconds"
    /\ scan' = [pc |-> "edt_stalls_total",
                view |-> [scan.view EXCEPT
                            !.edt_stall_duration_seconds = edt_stall_duration_seconds]]
    /\ ScanUnchanged

ScanStalls ==
    /\ scan.pc = "edt_stalls_total"
    /\ scan' = [pc |-> "events_total",
                view |-> [scan.view EXCEPT !.edt_stalls_total = edt_stalls_total]]
    /\ ScanUnchanged

ScanEvents ==
    /\ scan.pc = "events_total"
    /\ scan' = [pc |-> "heap_delta_bytes",
                view |-> [scan.view EXCEPT !.events_total = events_total]]
    /\ ScanUnchanged

\* heap_delta_bytes is sampled; the response is returned
ScanHeap ==
    /\ scan.pc = "heap_delta_bytes"
    /\ scan' = [pc |-> "done",
                view |-> [scan.view EXCEPT !.heap_delta_bytes = heap_delta_bytes]]
    /\ ScanUnchanged

MetricsStep ==
    \/ ScanDuration
    \/ ScanStallDuration
    \/ ScanStalls
    \/ ScanEvents
    \/ ScanHeap

----------------------------------------------------------------------------
(* app.py: report *)

REPORT_WINDOW == 50

\* s[:n], the oldest entries instead of the newest
FirstN(s, n) == IF Len(s) <= n THEN s ELSE SubSeq(s, 1, n)

\* s[-n:]
LastN(s, n) == IF Len(s) <= n THEN s ELSE SubSeq(s, Len(s) - n + 1, Len(s))

\* one formatted line: the fields in the order the f-string prints them
ReportLine(entry) ==
    <<entry[1], entry[2].action, entry[2].thread, entry[2].duration_ms,
      entry[2].edt_stalls, entry[2].edt_longest_stall_ms, entry[2].heap_delta_bytes>>

NoReport == [called |-> FALSE]
ReportBody(ring) ==
    LET window == LastN(ring, REPORT_WINDOW)
        lines == [i \in 1..Len(window) |-> ReportLine(window[i])]
    IN IF Len(lines) > 0
       THEN [called |-> TRUE, placeholder |-> FALSE, lines |-> lines]
       ELSE [called |-> TRUE, placeholder |-> TRUE, lines |-> <<"(no events yet)">>]

\* report() is called (once per behaviour)
Report ==
    /\ reportOut = NoReport
    /\ reportOut' = ReportBody(RING)
    /\ UNCHANGED <<aux, shared, req, scan, vsEvent, acked, nstarted>>

----------------------------------------------------------------------------
(* app.py: the routes the application registers; any other request is      *)
(* answered by the framework with 404                                      *)

ROUTES == {<<"POST", "/ingest">>, <<"GET", "/metrics">>, <<"GET", "/report">>}

NoDebug == [called |-> FALSE]
Dispatch(method, path) ==
    IF <<method, path>> \in ROUTES
    THEN [called |-> TRUE, status |-> 200]
    ELSE [called |-> TRUE, status |-> 404, detail |-> "Not Found"]

\* GET /debug is requested (once per behaviour)
Debug ==
    /\ debugOut = NoDebug
    /\ debugOut' = Dispatch("GET", "/debug")
    /\ UNCHANGED <<shared, req, scan, reportOut, vsEvent, vsMetrics, acked, nstarted>>

----------------------------------------------------------------------------
(* vscode-freezeguard/collector/models.py: the VS Code variant's schema    *)
(* applied to a parsed document                                            *)

NoVSEvent == [data |-> NoData, ev |-> NoEvent]

VSValidate(data) ==
    /\ vsEvent' = [data |-> data, ev |-> VSCodeActionEvent(data)]
    /\ UNCHANGED <<aux, shared, req, scan, reportOut, acked, nstarted>>

----------------------------------------------------------------------------
(* vscode-freezeguard/collector/metrics.py: the VS Code variant's registry *)

VS_ACTION_DURATION_BUCKETS == <<10000, 25000, 50000, 100000, 250000, 500000,
                                1000000, 2000000, 5000000, 10000000>>
VS_STALL_DURATION_BUCKETS == <<100000, 250000, 500000, 1000000, 2000000, 5000000>>

\* the names the module registers
VS_REGISTRY == {"vscode_action_duration_seconds", "vscode_main_stall_duration_seconds",
                "vscode_main_stalls_total", "vscode_events_total"}

VSEmpty == [n \in VS_REGISTRY |-> NoSeries]

\* the series of a metric; a name that is not registered has none
VSSeries(reg, name) == IF name \in DOMAIN reg THEN reg[name] ELSE NoSeries
\* only a registered metric can be updated
VSUpdate(reg, name, series) ==
    IF name \in DOMAIN reg THEN [reg EXCEPT ![name] = series] ELSE reg

VSApplied == CounterSum(VSSeries(vsMetrics, "vscode_events_total"))

\* The VS Code collector's ingest is not part of the sources; it is taken to
\* validate with the VS Code schema and to apply the update rules of the
\* metric registry to the metrics its metrics.py registers.  It handles the
\* document the unified collector was given last.
VSIngest ==
    /\ VSApplied < nstarted
    /\ req["w1"].raw.json
    /\ LET data == req["w1"].raw.doc
           ev == VSCodeActionEvent(data)
           k == <<ev.action, ev.thread>>
           stall_secs == StallSecs(ev.edt_longest_stall_ms)
           r1 == VSUpdate(vsMetrics, "vscode_action_duration_seconds",
                          HistObserve(VSSeries(vsMetrics, "vscode_action_duration_seconds"),
                                      VS_ACTION_DURATION_BUCKETS, k, Secs(ev.duration_ms)))
           r2 == IF stall_secs > 0
                 THEN VSUpdate(r1, "vscode_main_stall_duration_seconds",
                               HistObserve(VSSeries(r1, "vscode_main_stall_duration_seconds"),
                                           VS_STALL_DURATION_BUCKETS, <<ev.action>>,
                                           stall_secs))
                 ELSE r1
           r3 == IF ev.edt_stalls > 0
                 THEN VSUpdate(r2, "vscode_main_stalls_total",
                               CounterInc(VSSeries(r2, "vscode_main_stalls_total"),
                                          <<ev.action>>, ev.edt_stalls))
                 ELSE r2
           r4 == VSUpdate(r3, "vscode_events_total",
                          CounterInc(VSSeries(r3, "vscode_events_total"), k, 1))
           r5 == IF ev.heap_delta_bytes # 0
                 THEN VSUpdate(r4, "vscode_heap_delta_bytes",
                               HistObserve(VSSeries(r4, "vscode_heap_delta_bytes"),
                                           HEAP_DELTA_BUCKETS, k, ev.heap_delta_bytes))
                 ELSE r4
       IN /\ ev.valid
          /\ vsEvent' = [data |-> data, ev |-> ev]
          /\ vsMetrics' = r5
    /\ UNCHANGED <<debugOut, shared, req, scan, reportOut, acked, nstarted>>

----------------------------------------------------------------------------
(* Inputs *)

Iso0 == "2024-01-01T12:00:00Z"
Iso1 == "2024-01-01T12:00:01Z"

\* Scenario A of the tests
EvFull == JObj(JStr("X"), JNum(850), JStr("EDT"), JNum(3072), JNum(4), JNum(275),
               JStr(Iso0))
\* the four required fields only, same labels as EvFull
EvMinimal == JObj(JStr("X"), JNum(5), JStr("EDT"), JAbsent, JAbsent, JAbsent,
                  JStr(Iso1))
\* other labels, memory reclaimed, negative longest stall
EvOther == JObj(JStr("Y"), JNum(500), JStr("MAIN"), JNum(-20000), JNum(0), JNum(-5),
                JStr(Iso0))
EvBadThread == JObj(JStr("X"), JNum(100), JStr("INVALID_THREAD"), JNum(1024), JNum(1),
                    JNum(50), JStr(Iso0))
\* a negative stall count, which the schema's int accepts
EvNegStalls == JObj(JStr("X"), JNum(100), JStr("EDT"), JAbsent, JNum(-3), JAbsent,
                    JStr(Iso1))
\* a negative duration and a negative longest stall, same labels as EvFull
EvNegDuration == JObj(JStr("X"), JNum(-250), JStr("EDT"), JNum(-20000), JAbsent, JNum(-5),
                      JStr(Iso0))
\* duration and heap delta beyond the last bucket bound of their histograms,
\* the longest stall exactly on the last bound of its histogram
EvSlow == JObj(JStr("Z"), JNum(12000), JStr("BGT"), JNum(60000000), JNum(1), JNum(5000),
               JStr(Iso1))
\* EvMinimal without one of the required fields
EvNoAction == JObj(JAbsent, JNum(5), JStr("EDT"), JAbsent, JAbsent, JAbsent, JStr(Iso1))
EvNoDuration == JObj(JStr("X"), JAbsent, JStr("EDT"), JAbsent, JAbsent, JAbsent,
                     JStr(Iso1))
EvNoThread == JObj(JStr("X"), JNum(5), JAbsent, JAbsent, JAbsent, JAbsent, JStr(Iso1))
EvNoTs == JObj(JStr("X"), JNum(5), JStr("EDT"), JAbsent, JAbsent, JAbsent, JAbsent)

Bodies == {Body(EvFull), Body(EvMinimal), Body(EvOther), Body(EvBadThread), Malformed}

\* JSON documents that are not objects
NonObjects == {JArr, JNum(7), JStr("EDT"), JBool(TRUE), JNull}

\* every combination of these field values, plus the non-objects and a non-JSON body
WideDocs ==
    { JObj(a, d, th, h, st, JAbsent, ts) :
        a \in {JStr("X"), JStr(""), JAbsent, JArr},
        d \in {JNum(500), JAbsent, JStr("abc")},
        th \in {JStr("EDT"), JStr("BGT"), JStr("MAIN"), JStr("WORKER"),
                JStr("INVALID_THREAD"), JAbsent},
        h \in {JAbsent, JNum(-20000)},
        st \in {JAbsent, JNum(2)},
        ts \in {JStr(Iso0), JStr("not-a-date"), JAbsent} }
    \cup NonObjects
WideBodies == {Body(d) : d \in WideDocs} \cup {Malformed}

\* the n-th call of a sequential client that stamps its events
WarmEvent(n) == JObj(JStr("X"), JNum(850), JStr("EDT"), JNum(3072), JNum(4), JNum(275),
                     JNum(n))
LateBodies(n) ==
    {Body(JObj(JStr("Y"), JNum(500), JStr("MAIN"), JAbsent, JAbsent, JAbsent, JNum(n))),
     Body(EvBadThread)}

----------------------------------------------------------------------------
(* Specifications *)

Init ==
    /\ action_duration_seconds = NoSeries
    /\ edt_stall_duration_seconds = NoSeries
    /\ edt_stalls_total = NoSeries
    /\ events_total = NoSeries
    /\ heap_delta_bytes = NoSeries
    /\ RING = <<>>
    /\ req = [p \in Procs |->
                [pc |-> "idle", raw |-> Malformed, data |-> NoData, ev |-> NoEvent,
                 resp |-> NoResp]]
    /\ scan = IdleScan
    /\ reportOut = NoReport
    /\ vsEvent = NoVSEvent
    /\ debugOut = NoDebug
    /\ vsMetrics = VSEmpty
    /\ acked = <<>>
    /\ nstarted = 0

\* concurrent ingest calls and a /metrics reader
Arrive(p) == \E b \in Bodies : nstarted < MaxIngests /\ Receive(p, b)

Next ==
    \/ \E p \in Procs : Arrive(p) \/ IngestStep(p)
    \/ MetricsStep

Spec == Init /\ [][Next]_vars

\* one document presented to one of the two collectors
ArriveWide == \E b \in WideBodies :
                 nstarted = 0 /\ vsEvent = NoVSEvent /\ Receive("w1", b)
PresentVS == \E d \in WideDocs : nstarted = 0 /\ vsEvent = NoVSEvent /\ VSValidate(d)

NextSchema ==
    \/ ArriveWide
    \/ IngestStep("w1")
    \/ PresentVS

SpecSchema == Init /\ [][NextSchema]_vars

\* events both variants accept, given to both collectors one after the other
EvWorker == JObj(JStr("X"), JNum(850), JStr("WORKER"), JAbsent, JNum(4), JNum(275),
                 JStr(Iso1))
SharedDocs == {EvOther, EvWorker}
ArriveShared == \E d \in SharedDocs :
                    /\ AllIdle
                    /\ nstarted < MaxShared
                    /\ VSApplied = nstarted
                    /\ Receive("w1", Body(d))

NextVariants ==
    \/ ArriveShared
    \/ IngestStep("w1")
    \/ VSIngest

SpecVariants == Init /\ [][NextVariants]_vars

\* concurrent ingest calls with omitted fields and values outside the buckets
EffectBodies == {Body(EvFull), Body(EvMinimal), Body(EvNegDuration), Body(EvSlow),
                 Body(EvNoAction), Body(EvNoDuration), Body(EvNoThread), Body(EvNoTs)}
ArriveEffect(p) == \E b \in EffectBodies : nstarted < MaxIngests /\ Receive(p, b)

NextEffects == \E p \in Procs : ArriveEffect(p) \/ IngestStep(p)

SpecEffects == Init /\ [][NextEffects]_vars

\* concurrent ingest calls with positive and negative stall counts
SignedBodies == {Body(EvFull), Body(EvNegStalls), Body(EvBadThread), Malformed}
ArriveSigned(p) == \E b \in SignedBodies : nstarted < MaxIngests /\ Receive(p, b)

NextCounters == \E p \in Procs : ArriveSigned(p) \/ IngestStep(p)

SpecCounters == Init /\ [][NextCounters]_vars

\* a sequential client sends valid events, most of them to one series; their
\* durations in seconds have no finite binary expansion, their stalls do
MaxOrdered == 3
Ev100 == JObj(JStr("X"), JNum(100), JStr("EDT"), JNum(3072), JNum(4), JNum(250),
              JStr(Iso0))
Ev200 == JObj(JStr("X"), JNum(200), JStr("EDT"), JNum(-20000), JNum(0), JNum(500),
              JStr(Iso1))
Ev300 == JObj(JStr("X"), JNum(300), JStr("EDT"), JAbsent, JAbsent, JNum(125),
              JStr(Iso0))
OrderedBodies == {Body(Ev100), Body(Ev200), Body(Ev300), Body(EvOther)}
ArriveOrdered == \E b \in OrderedBodies :
                     /\ AllIdle
                     /\ nstarted < MaxOrdered
                     /\ Receive("w1", b)

NextOrder == ArriveOrdered \/ IngestStep("w1")

SpecOrder == Init /\ [][NextOrder]_vars

\* concurrent calls with four distinct (action, thread) pairs, two of them
\* with the same action, and two kinds of rejected payload
MaxSeries == 4
SeriesBodies == {Body(EvFull), Body(EvWorker), Body(EvOther), Body(EvSlow),
                 Body(EvNegStalls), Body(EvBadThread), Malformed}
ArriveSeries(p) == \E b \in SeriesBodies : nstarted < MaxSeries /\ Receive(p, b)

NextSeries == \E p \in Procs : ArriveSeries(p) \/ IngestStep(p)

SpecSeries == Init /\ [][NextSeries]_vars

\* a sequential client fills the buffer, then concurrent calls overflow it
ArriveWarm == nstarted < Warmup /\ AllIdle /\ Receive("w1", Body(WarmEvent(nstarted)))
\* a behaviour reads the report either while the buffer is filling (and then
\* ends with the warm-up) or during the concurrent calls
EarlyReported ==
    /\ reportOut # NoReport
    /\ (reportOut.placeholder \/ Len(reportOut.lines) < REPORT_WINDOW)
ArriveLate(p) == \E b \in LateBodies(nstarted) :
                    /\ Warmup <= nstarted
                    /\ nstarted < Warmup + MaxLate
                    /\ ~EarlyReported
                    /\ Receive(p, b)

ReportLate == Warmup <= nstarted /\ Report
\* a report of the empty buffer or of its first entries
ReportEarly == nstarted <= 2 /\ Report
DebugLate == Warmup <= nstarted /\ AllIdle /\ Debug

NextRing ==
    \/ ArriveWarm
    \/ \E p \in Procs : ArriveLate(p) \/ IngestStep(p)
    \/ ReportLate
    \/ ReportEarly
    \/ DebugLate

SpecRing == Init /\ [][NextRing]_vars

----------------------------------------------------------------------------
(* Vocabulary of the properties *)

Min(a, b) == IF a <= b THEN a ELSE b
Acted(p) == req'[p] # req[p]
Finished(p) == req[p].pc = "done"
Rejected(r) == r.resp.status \in {400, 422}
LabelsOf(ev) == <<ev.action, ev.thread>>

\* the constraints of the event schema, as the data model states them
RequiredPresent(doc) ==
    \A f \in {"action", "duration_ms", "thread", "ts"} : doc[f].t # "absent"
TypesOkExceptThread(doc) ==
    /\ doc.action.t = "string"
    /\ doc.duration_ms.t = "number"
    /\ doc.ts.t = "number" \/ (doc.ts.t = "string" /\ doc.ts.s \in {Iso0, Iso1})
    /\ \A f \in {"heap_delta_bytes", "edt_stalls", "edt_longest_stall_ms"} :
          doc[f].t \in {"absent", "number"}
ThreadIn(doc, threads) == doc.thread.t = "string" /\ doc.thread.s \in threads
MeetsConstraints(doc) ==
    /\ doc.t = "object"
    /\ RequiredPresent(doc)
    /\ TypesOkExceptThread(doc)
    /\ ThreadIn(doc, {"EDT", "BGT", "MAIN", "WORKER"})

\* acknowledged events with label pair k, and calls in flight at one of pcs with it
AckedWith(k) == Cardinality({i \in 1..Len(acked) : LabelsOf(acked[i]) = k})
InFlightWith(k, pcs) ==
    Cardinality({p \in Procs : req[p].pc \in pcs /\ LabelsOf(req[p].ev) = k})
KnownPairs ==
    DOMAIN events_total \cup DOMAIN action_duration_seconds
    \cup {LabelsOf(acked[i]) : i \in 1..Len(acked)}
    \cup {LabelsOf(req[p].ev) : p \in {q \in Procs : req[q].ev.valid}}

RECURSIVE PositiveStalls(_, _)
PositiveStalls(evs, a) ==
    IF evs = <<>> THEN 0
    ELSE (IF Head(evs).action = a /\ Head(evs).edt_stalls > 0
          THEN Head(evs).edt_stalls ELSE 0) + PositiveStalls(Tail(evs), a)

----------------------------------------------------------------------------
(* Properties *)

\* C1: every step of an ingest call that ends in a parse or schema failure
\* leaves all metric series (values and which series exist) and the ring
\* buffer as they were.  A rejected call never holds a typed event, and every
\* step of a call that holds no typed event leaves the shared state unchanged.
C1_RejectedCallChangesNothing ==
    [][\A p \in Procs :
          /\ (Acted(p) /\ ~req'[p].ev.valid) => UNCHANGED shared
          /\ Rejected(req'[p]) => ~req'[p].ev.valid]_vars

\* a call was rejected while the registry and the buffer hold an earlier event
C1_Witness ==
    \E p \in Procs : /\ Finished(p)
                     /\ req[p].resp.status = 422
                     /\ Len(RING) = 1
                     /\ events_total # NoSeries

\* C2: the buffer never holds more than RING_MAXLEN entries; after n accepted
\* ingests it holds exactly min(n, RING_MAXLEN) entries, the most recently
\* accepted ones in arrival order.
C2_RingHoldsMostRecent ==
    LET n == Len(acked)
        m == Min(n, 256)
    IN /\ Len(RING) <= 256
       /\ Len(RING) = m
       /\ \A i \in 1..m : RING[i] = <<acked[n - m + i].ts, acked[n - m + i]>>

\* more events were accepted than the buffer holds
C2_Witness == Len(acked) > 256 /\ Len(RING) = 256 /\ RING[256][2].action = "Y"

\* C3: each accepted call adds exactly 1 to events_total and exactly one
\* observation to action_duration_seconds for its own (action, thread): for
\* every pair both equal the number of acknowledged events with that pair plus
\* the calls in flight that are past the respective statement; with no call in
\* flight the two are equal to the number of accepted events.
C3_OneIncrementOneObservation ==
    \A k \in KnownPairs :
        /\ CounterValue(events_total, k)
             = AckedWith(k) + InFlightWith(k, {"heap", "append"})
        /\ HistCount(action_duration_seconds, k)
             = AckedWith(k)
               + InFlightWith(k, {"stall", "stalls", "events", "heap", "append"})

\* two events with the same pair were accepted and nothing is in flight
C3_Witness ==
    /\ AllIdle
    /\ CounterValue(events_total, <<"X", "EDT">>) = 2
    /\ HistCount(action_duration_seconds, <<"X", "EDT">>) = 2

\* C4: in what a /metrics reader has sampled, events_total[action, thread] is
\* never greater than the observation count of
\* action_duration_seconds[action, thread].
C4_ReaderNeverSeesCountAhead ==
    scan.pc \in {"heap_delta_bytes", "done"} =>
        \A k \in DOMAIN scan.view.events_total :
            scan.view.events_total[k] <= HistCount(scan.view.action_duration_seconds, k)

\* C5: a /metrics reader sees the updates of an event all or not at all: in
\* what it has sampled, the two updates every event makes (the duration
\* observation and the events_total increment) agree for every pair.
C5_ReaderSeesWholeEvents ==
    scan.pc = "done" =>
        /\ \A k \in DOMAIN scan.view.events_total \cup
                    DOMAIN scan.view.action_duration_seconds :
              CounterValue(scan.view.events_total, k)
                = HistCount(scan.view.action_duration_seconds, k)

\* C6: concurrent calls lose no update: once all calls have returned, the sum
\* of events_total is the number of accepted calls, each series' counter and
\* histogram count is the number of events addressed to it, and
\* edt_stalls_total is the sum of the positive edt_stalls values.
C6_NoLostUpdates ==
    AllIdle =>
        /\ CounterSum(events_total) = Len(acked)
        /\ \A k \in KnownPairs :
              /\ CounterValue(events_total, k) = AckedWith(k)
              /\ HistCount(action_duration_seconds, k) = AckedWith(k)
        /\ \A a \in {acked[i].action : i \in 1..Len(acked)} :
              CounterValue(edt_stalls_total, <<a>>) = PositiveStalls(acked, a)
        /\ \A k \in DOMAIN edt_stalls_total :
              edt_stalls_total[k] = PositiveStalls(acked, k[1])

\* two calls for the same series are in flight at the increment of
\* events_total at the same time
C6_Witness ==
    /\ req["w1"].pc = "events"
    /\ req["w2"].pc = "events"
    /\ LabelsOf(req["w1"].ev) = LabelsOf(req["w2"].ev)
    /\ req["w1"].ev.edt_stalls > 0

\* C7: append-and-evict is indivisible: no step leads to more than
\* RING_MAXLEN entries, every append puts the new entry last and keeps all
\* others but, at capacity, the oldest one, and no other step (a report
\* included) changes the buffer.
C7_AppendEvictsOldestOnly ==
    [][/\ Len(RING') <= 256
       /\ acked' # acked =>
            LET x == <<acked'[Len(acked')].ts, acked'[Len(acked')]>>
            IN IF Len(RING) = 256
               THEN RING' = Append(Tail(RING), x)
               ELSE RING' = Append(RING, x)
       /\ acked' = acked => RING' = RING]_vars

\* an append has evicted while another call is about to append to the full buffer
C7_Witness ==
    /\ Len(acked) > 256
    /\ Len(RING) = 256
    /\ \E p \in Procs : req[p].pc = "append"

C9_ThreadInClosedSet ==
    /\ \A p \in Procs :
          Finished(p) /\ req[p].raw.json =>
            LET doc == req[p].raw.doc IN
            /\ req[p].resp.status = 200 =>
                 ThreadIn(doc, {"EDT", "BGT", "MAIN", "WORKER"})
            /\ ( /\ doc.t = "object"
                 /\ RequiredPresent(doc)
                 /\ TypesOkExceptThread(doc)
                 /\ ~ThreadIn(doc, {"EDT", "BGT", "MAIN", "WORKER"}) )
               => req[p].resp.status = 422
    /\ vsEvent # NoVSEvent =>
          LET doc == vsEvent.data IN
          /\ vsEvent.ev.valid => ThreadIn(doc, {"MAIN", "WORKER"})
          /\ ( /\ doc.t = "object"
               /\ RequiredPresent(doc)
               /\ TypesOkExceptThread(doc)
               /\ ~ThreadIn(doc, {"MAIN", "WORKER"}) )
             => ~vsEvent.ev.valid

\* an otherwise valid document with a thread outside the set has been rejected
C9_Witness ==
    \E p \in Procs :
        /\ Finished(p)
        /\ req[p].raw.json
        /\ req[p].raw.doc.t = "object"
        /\ RequiredPresent(req[p].raw.doc)
        /\ TypesOkExceptThread(req[p].raw.doc)
        /\ req[p].raw.doc.thread = JStr("INVALID_THREAD")
        /\ req[p].resp.status = 422

\* C10: a document whose action is the empty string (other fields valid) is
\* rejected with a schema error; no metric series is labelled with an empty
\* action and no buffer entry has one.
C10_EmptyActionRejected ==
    /\ \A p \in Procs :
          ( /\ Finished(p)
            /\ req[p].raw.json
            /\ req[p].raw.doc.t = "object"
            /\ req[p].raw.doc.action = JStr("") ) => req[p].resp.status = 422
    /\ \A k \in DOMAIN action_duration_seconds \cup DOMAIN events_total
                \cup DOMAIN heap_delta_bytes \cup DOMAIN edt_stalls_total
                \cup DOMAIN edt_stall_duration_seconds : k[1] # ""
    /\ \A i \in 1..Len(RING) : RING[i][2].action # ""

\* C11: a debug read answers with a lifetime total equal to the number of
\* events ever appended to the ring buffer, also after the buffer has
\* overflowed and evicted entries.
C11_DebugLifetimeTotal ==
    [][debugOut' # debugOut =>
          /\ debugOut'.status = 200
          /\ debugOut'.total_events = Len(acked)]_vars

\* C12: a debug read succeeds and lists every event still held by the ring
\* buffer with its action and thread.
C12_DebugListsRetainedEvents ==
    [][debugOut' # debugOut =>
          /\ debugOut'.status = 200
          /\ \A i \in 1..Len(RING) :
                \E j \in 1..Len(debugOut'.recent_events) :
                    /\ debugOut'.recent_events[j].action = RING[i][2].action
                    /\ debugOut'.recent_events[j].thread = RING[i][2].thread]_vars

\* C13: a report returns min(50, size) lines, one for each of the last 50
\* buffer entries in arrival order, or the single placeholder line when the
\* buffer is empty, and changes neither the buffer nor any metric.
C13_ReportIsReadOnlyProjection ==
    [][reportOut' # reportOut =>
          /\ UNCHANGED shared
          /\ IF Len(RING) = 0
             THEN reportOut'.lines = <<"(no events yet)">>
             ELSE LET n == Min(REPORT_WINDOW, Len(RING)) IN
                  /\ Len(reportOut'.lines) = n
                  /\ \A i \in 1..n :
                        reportOut'.lines[i] = ReportLine(RING[Len(RING) - n + i])]_vars
C13_Witness ==
    /\ reportOut # NoReport
    /\ Len(reportOut.lines) = REPORT_WINDOW
    /\ Len(RING) = RING_MAXLEN
    /\ reportOut.lines[REPORT_WINDOW] = ReportLine(RING[RING_MAXLEN])

\* worker p executes the statement at position from and moves on to position to
Passes(p, from, to) == req[p].pc = from /\ req'[p].pc = to
NoPass(from, to) == \A p \in Procs : ~Passes(p, from, to)

\* every series but k is the same in h and h2
OthersSame(h, h2, k) ==
    /\ DOMAIN h2 \ {k} = DOMAIN h \ {k}
    /\ \A x \in DOMAIN h \ {k} : h2[x] = h[x]

HistSum(h, k) == IF k \in DOMAIN h THEN h[k].sum ELSE 0

\* h2 is h with exactly one more observation, of value v, in series k
ObservedOnce(h, h2, bounds, k, v) ==
    /\ k \in DOMAIN h2
    /\ HistCount(h2, k) = HistCount(h, k) + 1
    /\ HistSum(h2, k) = HistSum(h, k) + v
    /\ \A i \in 1..(Len(bounds) + 1) :
          h2[k].buckets[i] =
              (IF k \in DOMAIN h THEN h[k].buckets[i] ELSE 0)
                + (IF i = BucketIndex(bounds, v) THEN 1 ELSE 0)
    /\ OthersSame(h, h2, k)

\* C14: an accepted event adds exactly edt_stalls to edt_stalls_total[action]
\* when edt_stalls > 0 and leaves the metric as it is (no increment, no series
\* created) when edt_stalls = 0; series of other actions are not changed, and
\* no other statement of the program changes the metric.
C14_StallsAddedOnlyWhenPositive ==
    [][ /\ \A p \in Procs : Passes(p, "stalls", "events") =>
              LET ev == req[p].ev
                  k == <<ev.action>>
              IN /\ ev.edt_stalls > 0 =>
                       /\ k \in DOMAIN edt_stalls_total'
                       /\ edt_stalls_total'[k]
                            = CounterValue(edt_stalls_total, k) + ev.edt_stalls
                 /\ ev.edt_stalls = 0 => edt_stalls_total' = edt_stalls_total
                 /\ OthersSame(edt_stalls_total, edt_stalls_total', k)
        /\ NoPass("stalls", "events") => edt_stalls_total' = edt_stalls_total ]_vars
C14_Witness ==
    /\ AllIdle
    /\ DOMAIN edt_stalls_total = {<<"X">>}
    /\ edt_stalls_total[<<"X">>] = 4
    /\ \E i \in 1..Len(acked) : acked[i].action = "Y" /\ acked[i].edt_stalls = 0

\* C15: an accepted event with edt_longest_stall_ms <= 0 leaves
\* edt_stall_duration_seconds unchanged (count, sum and buckets); one with
\* edt_longest_stall_ms > 0 adds exactly one observation of
\* edt_longest_stall_ms / 1000 to the series of its action; no other statement
\* changes the metric.
C15_StallObservedOnlyWhenPositive ==
    [][ /\ \A p \in Procs : Passes(p, "stall", "stalls") =>
              LET ev == req[p].ev
              IN IF ev.edt_longest_stall_ms <= 0
                 THEN edt_stall_duration_seconds' = edt_stall_duration_seconds
                 ELSE ObservedOnce(edt_stall_duration_seconds,
                                   edt_stall_duration_seconds',
                                   STALL_DURATION_BUCKETS, <<ev.action>>,
                                   Secs(ev.edt_longest_stall_ms))
        /\ NoPass("stall", "stalls") =>
              edt_stall_duration_seconds' = edt_stall_duration_seconds ]_vars
C15_Witness ==
    /\ AllIdle
    /\ \E i \in 1..Len(acked) : acked[i].edt_longest_stall_ms < 0
    /\ \E i \in 1..Len(acked) : acked[i].edt_longest_stall_ms = 275
    /\ DOMAIN edt_stall_duration_seconds = {<<"X">>}
    /\ HistCount(edt_stall_duration_seconds, <<"X">>) = 1
    /\ HistSum(edt_stall_duration_seconds, <<"X">>) = 275000

\* two acknowledged events with the same (action, thread), one with a zero
\* and one with a non-zero heap delta, and nothing else
ZeroAndNonZeroDelta ==
    /\ AllIdle
    /\ Len(acked) = 2
    /\ LabelsOf(acked[1]) = LabelsOf(acked[2])
    /\ \E i, j \in 1..2 : acked[i].heap_delta_bytes = 0 /\ acked[j].heap_delta_bytes # 0

DoubleSubmission == AllIdle /\ Len(acked) = 2 /\ acked[1] = acked[2]

\* C17: ingest is not idempotent.  Two calls with the same payload have the
\* same outcome, and after the same valid payload has been accepted twice
\* events_total[action, thread] is 2, the duration series holds two
\* observations of the duration, edt_stalls_total[action] holds edt_stalls
\* twice, and the ring buffer holds two equal entries.
C17_DuplicateCountsTwice ==
    /\ \A p, q \in Procs :
          (Finished(p) /\ Finished(q) /\ req[p].raw = req[q].raw)
              => req[p].resp = req[q].resp
    /\ DoubleSubmission =>
          LET ev == acked[1]
              k == LabelsOf(ev)
          IN /\ CounterValue(events_total, k) = 2
             /\ HistCount(action_duration_seconds, k) = 2
             /\ HistSum(action_duration_seconds, k) = 2 * Secs(ev.duration_ms)
             /\ CounterValue(edt_stalls_total, <<ev.action>>)
                  = 2 * Max(0, ev.edt_stalls)
             /\ RING = <<(<<ev.ts, ev>>), (<<ev.ts, ev>>)>>
C17_Witness ==
    /\ DoubleSubmission
    /\ acked[1].edt_stalls = 4
    /\ CounterValue(edt_stalls_total, <<"X">>) = 8
    /\ \A p \in Procs : Finished(p) /\ req[p].resp = Ack
    /\ Len(RING) = 2

\* the calls that have incremented events_total and not yet appended
CountedNotAppended ==
    Cardinality({p \in Procs : req[p].pc \in {"heap", "append"}})

\* C19: within a call the metrics are updated before the ring-buffer append and
\* the acknowledgement comes after both: the number of events ever appended is
\* at most the sum of events_total (the difference being the calls between
\* the two statements), equal to it when no call is in flight; a call is
\* acknowledged only with its event appended, and the appended events not yet
\* evicted are the buffer's entries, in order.
C19_MetricsThenAppendThenAck ==
    /\ Len(acked) <= CounterSum(events_total)
    /\ CounterSum(events_total) = Len(acked) + CountedNotAppended
    /\ AllIdle => Len(acked) = CounterSum(events_total)
    /\ \A p \in Procs :
          (Finished(p) /\ req[p].resp = Ack) =>
              /\ \E i \in 1..Len(acked) : acked[i] = req[p].ev
              /\ CounterValue(events_total, LabelsOf(req[p].ev)) >= 1
              /\ HistCount(action_duration_seconds, LabelsOf(req[p].ev)) >= 1
    /\ \A k \in KnownPairs :
          /\ CounterValue(events_total, k) >= AckedWith(k)
          /\ HistCount(action_duration_seconds, k) >= AckedWith(k)
    /\ Len(RING) = Min(Len(acked), RING_MAXLEN)
    /\ \A i \in 1..Len(RING) :
          RING[i] = LET ev == acked[Len(acked) - Len(RING) + i] IN <<ev.ts, ev>>
C19_Witness ==
    /\ \E p \in Procs : req[p].pc = "append"
    /\ \E p \in Procs : Finished(p) /\ req[p].resp = Ack
    /\ Len(acked) > RING_MAXLEN
    /\ CounterSum(events_total) = Len(acked) + 1

\* every series of c is still there in c2, with a value not smaller
Monotonic(c, c2) == \A k \in DOMAIN c : k \in DOMAIN c2 /\ c2[k] >= c[k]

\* C20: counters are monotonic.  No step of any call, accepted or rejected,
\* also of an accepted event with a negative edt_stalls, lowers the value of
\* an events_total or edt_stalls_total series or removes a series.
C20_CountersMonotonic ==
    [][ /\ Monotonic(events_total, events_total')
        /\ Monotonic(edt_stalls_total, edt_stalls_total') ]_vars
C20_Witness ==
    /\ AllIdle
    /\ Len(acked) = 2
    /\ acked[1].edt_stalls = 4
    /\ acked[2].edt_stalls = -3
    /\ edt_stalls_total[<<"X">>] = 4
    /\ events_total[<<"X", "EDT">>] = 2

\* both collectors have handled every event given so far
Synced == AllIdle /\ VSApplied = nstarted

\* C18: after any sequence of events that both variants accept, each of the
\* five unified metrics (duration, stall duration, stall count, events total,
\* heap delta) has the same series as its vscode_ counterpart.
C18_VariantsCorrespond ==
    Synced =>
        /\ VSSeries(vsMetrics, "vscode_action_duration_seconds") = action_duration_seconds
        /\ VSSeries(vsMetrics, "vscode_main_stall_duration_seconds")
              = edt_stall_duration_seconds
        /\ VSSeries(vsMetrics, "vscode_main_stalls_total") = edt_stalls_total
        /\ VSSeries(vsMetrics, "vscode_events_total") = events_total
        /\ VSSeries(vsMetrics, "vscode_heap_delta_bytes") = heap_delta_bytes

\* a document with the four required fields, well-typed, and nothing else
OnlyRequired(raw) ==
    /\ raw.json
    /\ MeetsConstraints(raw.doc)
    /\ \A f \in {"heap_delta_bytes", "edt_stalls", "edt_longest_stall_ms"} :
          raw.doc[f].t = "absent"
MissingRequired(raw) ==
    raw.json /\ raw.doc.t = "object" /\ ~RequiredPresent(raw.doc)

\* C21: a payload with only well-typed action, duration_ms, thread and ts is
\* accepted with the three omitted fields at 0, and no step of its call
\* changes anything in the registry but action_duration_seconds[action, thread]
\* and events_total[action, thread]; a payload that lacks one of the four
\* required fields is rejected with a schema error.
C21_RequiredFieldsSuffice ==
    /\ [](\A p \in Procs :
            /\ (Finished(p) /\ OnlyRequired(req[p].raw)) =>
                  /\ req[p].resp = Ack
                  /\ req[p].ev.heap_delta_bytes = 0
                  /\ req[p].ev.edt_stalls = 0
                  /\ req[p].ev.edt_longest_stall_ms = 0
                  /\ \E i \in 1..Len(RING) : RING[i][2] = req[p].ev
            /\ (Finished(p) /\ MissingRequired(req[p].raw)) =>
                  req[p].resp.status = 422)
    /\ [][\A p \in Procs :
            (Acted(p) /\ OnlyRequired(req'[p].raw)) =>
                LET k == <<req'[p].raw.doc.action.s, req'[p].raw.doc.thread.s>>
                IN /\ UNCHANGED <<edt_stall_duration_seconds, edt_stalls_total,
                                  heap_delta_bytes>>
                   /\ OthersSame(action_duration_seconds, action_duration_seconds', k)
                   /\ OthersSame(events_total, events_total', k)]_vars
C21_Witness ==
    /\ AllIdle
    /\ Len(acked) = 2
    /\ \E p \in Procs : req[p].raw = Body(EvMinimal) /\ req[p].resp = Ack
    /\ CounterValue(edt_stalls_total, <<"X">>) = 4
    /\ CounterValue(events_total, <<"X", "EDT">>) = 2
    /\ HistCount(heap_delta_bytes, <<"X", "EDT">>) = 1

\* C22: clamping is asymmetric.  An event with a negative duration_ms is
\* accepted and duration_ms / 1000, negative as it is, is observed in
\* action_duration_seconds, so the sum of the series decreases; a negative
\* edt_longest_stall_ms is clamped to zero and observes nothing.
C22_OnlyStallIsClamped ==
    /\ [](\A p \in Procs :
            ( /\ Finished(p)
              /\ req[p].raw.json
              /\ MeetsConstraints(req[p].raw.doc)
              /\ req[p].raw.doc.duration_ms.n < 0 ) => req[p].resp = Ack)
    /\ [][\A p \in Procs :
            /\ Passes(p, "duration", "stall") =>
                  LET ev == req[p].ev
                      k == LabelsOf(ev)
                  IN /\ ObservedOnce(action_duration_seconds, action_duration_seconds',
                                     ACTION_DURATION_BUCKETS, k, ev.duration_ms * 1000)
                     /\ ev.duration_ms < 0 =>
                           HistSum(action_duration_seconds', k)
                             < HistSum(action_duration_seconds, k)
            /\ (Passes(p, "stall", "stalls") /\ req[p].ev.edt_longest_stall_ms < 0) =>
                  edt_stall_duration_seconds' = edt_stall_duration_seconds]_vars
C22_Witness ==
    /\ AllIdle
    /\ Len(acked) = 2
    /\ \E i \in 1..2 : acked[i].duration_ms = -250 /\ acked[i].edt_longest_stall_ms = -5
    /\ HistCount(action_duration_seconds, <<"X", "EDT">>) = 2
    /\ HistSum(action_duration_seconds, <<"X", "EDT">>) = 600000
    /\ HistCount(edt_stall_duration_seconds, <<"X">>) = 1

\* bucket i is the one with the smallest upper bound >= v, or the overflow
\* bucket when v exceeds every bound
SmallestBoundAtLeast(bounds, v, i) ==
    IF \A j \in 1..Len(bounds) : v > bounds[j]
    THEN i = Len(bounds) + 1
    ELSE /\ i \in 1..Len(bounds)
         /\ bounds[i] >= v
         /\ \A j \in 1..Len(bounds) : bounds[j] >= v => bounds[i] <= bounds[j]

BucketsOf(h, bounds, k) ==
    IF k \in DOMAIN h THEN h[k].buckets ELSE [i \in 1..(Len(bounds) + 1) |-> 0]

\* from h to h2, series k took one observation of v: count + 1, sum + v, and
\* one more in exactly the bucket of v
TookObservation(h, h2, bounds, k, v) ==
    /\ k \in DOMAIN h2
    /\ HistCount(h2, k) = HistCount(h, k) + 1
    /\ HistSum(h2, k) = HistSum(h, k) + v
    /\ \E i \in 1..(Len(bounds) + 1) :
          /\ SmallestBoundAtLeast(bounds, v, i)
          /\ \A j \in 1..(Len(bounds) + 1) :
                h2[k].buckets[j]
                  = BucketsOf(h, bounds, k)[j] + (IF j = i THEN 1 ELSE 0)
    /\ OthersSame(h, h2, k)

\* every series of h has one counter per bound and one for the overflow
ShapeKept(h, bounds) ==
    \A k \in DOMAIN h :
        /\ Len(h[k].buckets) = Len(bounds) + 1
        /\ \A i \in 1..Len(h[k].buckets) : h[k].buckets[i] >= 0

\* C23: the buckets of each histogram are the same in every state (every
\* series has one counter per declared bound plus the overflow), and every
\* observation of v adds 1 to the count and v to the sum of its series and is
\* counted in the bucket with the smallest bound >= v, or in the overflow
\* bucket alone when v exceeds every bound; also for a negative heap delta.
C23_ObservationLandsInItsBucket ==
    /\ [](/\ ShapeKept(action_duration_seconds, ACTION_DURATION_BUCKETS)
          /\ ShapeKept(edt_stall_duration_seconds, STALL_DURATION_BUCKETS)
          /\ ShapeKept(heap_delta_bytes, HEAP_DELTA_BUCKETS))
    /\ [][\A p \in Procs :
            LET ev == req[p].ev IN
            /\ Passes(p, "duration", "stall") =>
                  TookObservation(action_duration_seconds, action_duration_seconds',
                                  ACTION_DURATION_BUCKETS, LabelsOf(ev),
                                  ev.duration_ms * 1000)
            /\ (Passes(p, "stall", "stalls") /\ ev.edt_longest_stall_ms > 0) =>
                  TookObservation(edt_stall_duration_seconds,
                                  edt_stall_duration_seconds',
                                  STALL_DURATION_BUCKETS, <<ev.action>>,
                                  ev.edt_longest_stall_ms * 1000)
            /\ (Passes(p, "heap", "append") /\ ev.heap_delta_bytes # 0) =>
                  TookObservation(heap_delta_bytes, heap_delta_bytes',
                                  HEAP_DELTA_BUCKETS, LabelsOf(ev),
                                  ev.heap_delta_bytes)]_vars
C23_Witness ==
    /\ AllIdle
    /\ <<"Z", "BGT">> \in DOMAIN action_duration_seconds
    /\ action_duration_seconds[<<"Z", "BGT">>].buckets[11] = 1
    /\ edt_stall_duration_seconds[<<"Z">>].buckets[6] = 1
    /\ heap_delta_bytes[<<"Z", "BGT">>].buckets[12] = 1
    /\ <<"X", "EDT">> \in DOMAIN heap_delta_bytes
    /\ heap_delta_bytes[<<"X", "EDT">>].buckets[5] = 1
    /\ HistSum(heap_delta_bytes, <<"X", "EDT">>) = -20000

\* the events evs with their timestamps replaced by those of f
Restamped(evs, f) == [i \in 1..Len(evs) |-> [evs[i] EXCEPT !.ts = f[i]]]
Stamps == {0, 1, 2}

NonObject(raw) == raw.json /\ raw.doc.t # "object"

\* C25: a body that is JSON but not an object (array, number, string, boolean,
\* null) is never accepted: it is answered with the schema error (422, the
\* document echoed), not the parse error, and no step of its call changes a
\* metric or the ring buffer.
C25_NonObjectIsSchemaError ==
    /\ [](\A p \in Procs :
            (Finished(p) /\ NonObject(req[p].raw)) =>
                req[p].resp = [status |-> 422, ok |-> FALSE, error |-> "model",
                               data |-> req[p].raw.doc])
    /\ [][\A p \in Procs :
            (Acted(p) /\ NonObject(req'[p].raw)) =>
                /\ UNCHANGED shared
                /\ req'[p].resp # Ack
                /\ ~req'[p].ev.valid]_vars
C25_Witness ==
    \E p \in Procs :
        /\ Finished(p)
        /\ req[p].raw = Body(JNull)
        /\ req[p].resp.status = 422

\* the events evs in the order given by the permutation perm of their indices
Reordered(evs, perm) == [i \in 1..Len(evs) |-> evs[perm[i]]]

\* a histogram without its sums
SumsDropped(h) == [k \in DOMAIN h |-> [h[k] EXCEPT !.sum = 0]]

\* a registry without the sums of the two histograms of seconds
SecondsSumsDropped(reg) ==
    [reg EXCEPT !.action_duration_seconds = SumsDropped(@),
                !.edt_stall_duration_seconds = SumsDropped(@)]

\* the double sums of the two histograms of seconds are the same after evs
\* as after the events in their order of arrival
SameSecondsSums(evs) ==
    /\ \A k \in DOMAIN action_duration_seconds :
            DurationSum(evs, k) = DurationSum(acked, k)
    /\ \A k \in DOMAIN edt_stall_duration_seconds :
            StallSum(evs, k[1]) = StallSum(acked, k[1])

\* a sum of seconds is the same after evs as after the events in their
\* order of arrival if no addition to it rounds in either order
SameExactSecondsSums(evs) ==
    /\ \A k \in DOMAIN action_duration_seconds :
            (/\ FloatSumIsExact(FloatZero, DurationsIn(evs, k))
             /\ FloatSumIsExact(FloatZero, DurationsIn(acked, k)))
                => DurationSum(evs, k) = DurationSum(acked, k)
    /\ \A k \in DOMAIN edt_stall_duration_seconds :
            (/\ FloatSumIsExact(FloatZero, StallsIn(evs, k[1]))
             /\ FloatSumIsExact(FloatZero, StallsIn(acked, k[1])))
                => StallSum(evs, k[1]) = StallSum(acked, k[1])

\* C26 as stated: with no call in flight, the registry (series, counter
\* values, histogram counts, sums and buckets) is the one that every other
\* order of the same events produces, and every order that differs from the
\* order of arrival gives another ring buffer.
C26_SumsInEveryOrder ==
    AllIdle =>
        \A perm \in Permutations(1..Len(acked)) :
            LET evs == Reordered(acked, perm)
            IN /\ ApplyAll(EmptyRegistry, evs) = Registry
               /\ SameSecondsSums(evs)
               /\ evs # acked => AppendAll(<<>>, evs) # RING

\* C26, amended: the metric updates of different accepted events commute up
\* to the rounding of the sums of seconds.  With no call in flight, every
\* order of the same events produces the same series, counter values,
\* histogram counts and buckets and the same sums of heap deltas; the sum of
\* a series of the two histograms of seconds is the same in two orders when
\* no addition to it rounds in either; every order that differs from the
\* order of arrival gives another ring buffer.
C26_MetricUpdatesCommute ==
    AllIdle =>
        \A perm \in Permutations(1..Len(acked)) :
            LET evs == Reordered(acked, perm)
            IN /\ SecondsSumsDropped(ApplyAll(EmptyRegistry, evs))
                      = SecondsSumsDropped(Registry)
               /\ SameExactSecondsSums(evs)
               /\ evs # acked => AppendAll(<<>>, evs) # RING
C26_Witness ==
    /\ AllIdle
    /\ Len(acked) = 3
    /\ \E i \in 1..3 : acked[i].heap_delta_bytes < 0
    /\ \E perm \in Permutations(1..3) :
           LET evs == Reordered(acked, perm)
           IN /\ DurationSum(evs, <<"X", "EDT">>) # DurationSum(acked, <<"X", "EDT">>)
              /\ StallSum(evs, "X") = StallSum(acked, "X")
              /\ FloatSumIsExact(FloatZero, StallsIn(evs, "X"))
              /\ Len(StallsIn(evs, "X")) = 3

\* the events accepted so far as far as one statement of ingest is concerned:
\* the acknowledged ones and those of the calls in flight at one of pcs, that
\* is, past that statement
AcceptedPast(pcs) ==
    {acked[i] : i \in 1..Len(acked)} \cup {req[p].ev : p \in {q \in Procs : req[q].pc \in pcs}}

\* C27: the label series of events_total and of action_duration_seconds are
\* exactly the distinct (action, thread) pairs of the events accepted so far
\* (a call in flight counts from the statement that updates the metric), so
\* rejected payloads create no series and every new pair adds one, without a
\* cap; a conditional metric has a series exactly for the actions (pairs, for
\* heap_delta_bytes) of the accepted events that met its condition.
C27_SeriesAreAcceptedPairs ==
    /\ DOMAIN action_duration_seconds
         = {LabelsOf(ev) : ev \in AcceptedPast({"stall", "stalls", "events", "heap", "append"})}
    /\ DOMAIN events_total = {LabelsOf(ev) : ev \in AcceptedPast({"heap", "append"})}
    /\ DOMAIN edt_stall_duration_seconds
         = {<<ev.action>> :
              ev \in {e \in AcceptedPast({"stalls", "events", "heap", "append"}) :
                        e.edt_longest_stall_ms > 0}}
    /\ DOMAIN edt_stalls_total
         = {<<ev.action>> :
              ev \in {e \in AcceptedPast({"events", "heap", "append"}) : e.edt_stalls > 0}}
    /\ DOMAIN heap_delta_bytes
         = {LabelsOf(ev) : ev \in {e \in AcceptedPast({"append"}) : e.heap_delta_bytes # 0}}

\* three pairs were accepted, two of them with the action X, next to a
\* rejected payload; only one event of action X had stalls, only the event
\* of action Y a heap delta
C27_Witness ==
    /\ AllIdle
    /\ Len(acked) = 3
    /\ nstarted = 4
    /\ DOMAIN events_total = {<<"X", "EDT">>, <<"X", "WORKER">>, <<"Y", "MAIN">>}
    /\ DOMAIN action_duration_seconds = DOMAIN events_total
    /\ DOMAIN edt_stalls_total = {<<"X">>}
    /\ DOMAIN edt_stall_duration_seconds = {<<"X">>}
    /\ DOMAIN heap_delta_bytes = {<<"Y", "MAIN">>}

====
